---- MODULE Spec2Model ----
(***************************************************************************)
(* AES-128 block cipher (package aes), its second copy in package matasano *)
(* and the ECB/CBC detection oracle, as state machines.                    *)
(*                                                                         *)
(* Representation.  A Go uint32 is a function 0..3 -> 0..255 holding its   *)
(* four bytes, index 0 the most significant (bits 31..24): every shift in  *)
(* the source is a multiple of 8 and every mask is 0xff, so this keeps the *)
(* exact value while staying inside TLC's integers.  A Go slice is a       *)
(* function 0..len-1 -> element, so indices are the source's indices.      *)
(***************************************************************************)
EXTENDS Integers, Sequences, FiniteSets, TLC

\* ------------------------------------------------------------- bytes, words

Byte == 0..255

len(s) == Cardinality(DOMAIN s)

\* f itself, as an explicit table: TLC otherwise keeps [x \in S |-> e] as an
\* unevaluated closure and recomputes e at every application.
Table(f) == f @@ << >>

\* a Go slice literal
Slice(q) == Table([j \in 0..(Len(q) - 1) |-> q[j + 1]])

\* s[lo:hi]
SliceOf(s, lo, hi) == Table([j \in 0..(hi - lo - 1) |-> s[lo + j]])

\* bit k of a
Bit(a, k) == (a \div (2 ^ k)) % 2

XorNibble ==
    Table([a \in 0..15 |-> Table([b \in 0..15 |->
        ((Bit(a, 0) + Bit(b, 0)) % 2)
        + (2 * ((Bit(a, 1) + Bit(b, 1)) % 2))
        + (4 * ((Bit(a, 2) + Bit(b, 2)) % 2))
        + (8 * ((Bit(a, 3) + Bit(b, 3)) % 2))])])

\* a ^ b on bytes
Xor(a, b) == (16 * XorNibble[a \div 16][b \div 16]) + XorNibble[a % 16][b % 16]

\* uint32(a)<<24 | uint32(b)<<16 | uint32(c)<<8 | uint32(d)
Word(a, b, c, d) == (0 :> a) @@ (1 :> b) @@ (2 :> c) @@ (3 :> d)

\* x ^ y on uint32
XorWord(x, y) == Table([j \in 0..3 |-> Xor(x[j], y[j])])

OrNibble ==
    Table([a \in 0..15 |-> Table([b \in 0..15 |->
        (IF Bit(a, 0) + Bit(b, 0) > 0 THEN 1 ELSE 0)
        + (2 * (IF Bit(a, 1) + Bit(b, 1) > 0 THEN 1 ELSE 0))
        + (4 * (IF Bit(a, 2) + Bit(b, 2) > 0 THEN 1 ELSE 0))
        + (8 * (IF Bit(a, 3) + Bit(b, 3) > 0 THEN 1 ELSE 0))])])

\* a | b on bytes
Or(a, b) == (16 * OrNibble[a \div 16][b \div 16]) + OrNibble[a % 16][b % 16]

\* x | y on uint32
OrWord(x, y) == Table([j \in 0..3 |-> Or(x[j], y[j])])

\* x << (8*n) and x >> (8*n) on uint32, n in 0..4 (Go: a shift by 32 gives 0)
ShlWord(x, n) == Table([j \in 0..3 |-> IF j + n <= 3 THEN x[j + n] ELSE 0])
ShrWord(x, n) == Table([j \in 0..3 |-> IF j - n >= 0 THEN x[j - n] ELSE 0])

\* ------------------------------------------------------------- field tables

\* multiplication by x in GF(2^8) modulo x^8 + x^4 + x^3 + x + 1
xtime(a) == IF a >= 128 THEN Xor((2 * a) % 256, 27) ELSE 2 * a

gMulBy2 == Table([a \in Byte |-> xtime(a)])
gMulBy3 == Table([a \in Byte |-> Xor(xtime(a), a)])
gMulBy9 == Table([a \in Byte |-> Xor(xtime(xtime(xtime(a))), a)])
gMulBy11 == Table([a \in Byte |-> Xor(Xor(xtime(xtime(xtime(a))), xtime(a)), a)])
gMulBy13 == Table([a \in Byte |-> Xor(Xor(xtime(xtime(xtime(a))), xtime(xtime(a))), a)])
gMulBy14 == Table([a \in Byte |-> Xor(Xor(xtime(xtime(xtime(a))), xtime(xtime(a))), xtime(a))])

\* powx[j] = x^j in GF(2^8)
RECURSIVE PowX(_)
PowX(j) == IF j = 0 THEN 1 ELSE xtime(PowX(j - 1))

powx == Table([j \in 0..15 |-> PowX(j)])

\* the AES substitution box: the multiplicative inverse in GF(2^8) followed
\* by the affine transform, tabulated
sbox0 ==
    Slice(<<  99, 124, 119, 123, 242, 107, 111, 197,  48,   1, 103,  43, 254, 215, 171, 118,
             202, 130, 201, 125, 250,  89,  71, 240, 173, 212, 162, 175, 156, 164, 114, 192,
             183, 253, 147,  38,  54,  63, 247, 204,  52, 165, 229, 241, 113, 216,  49,  21,
               4, 199,  35, 195,  24, 150,   5, 154,   7,  18, 128, 226, 235,  39, 178, 117,
               9, 131,  44,  26,  27, 110,  90, 160,  82,  59, 214, 179,  41, 227,  47, 132,
              83, 209,   0, 237,  32, 252, 177,  91, 106, 203, 190,  57,  74,  76,  88, 207,
             208, 239, 170, 251,  67,  77,  51, 133,  69, 249,   2, 127,  80,  60, 159, 168,
              81, 163,  64, 143, 146, 157,  56, 245, 188, 182, 218,  33,  16, 255, 243, 210,
             205,  12,  19, 236,  95, 151,  68,  23, 196, 167, 126,  61, 100,  93,  25, 115,
              96, 129,  79, 220,  34,  42, 144, 136,  70, 238, 184,  20, 222,  94,  11, 219,
             224,  50,  58,  10,  73,   6,  36,  92, 194, 211, 172,  98, 145, 149, 228, 121,
             231, 200,  55, 109, 141, 213,  78, 169, 108,  86, 244, 234, 101, 122, 174,   8,
             186, 120,  37,  46,  28, 166, 180, 198, 232, 221, 116,  31,  75, 189, 139, 138,
             112,  62, 181, 102,  72,   3, 246,  14,  97,  53,  87, 185, 134, 193,  29, 158,
             225, 248, 152,  17, 105, 217, 142, 148, 155,  30, 135, 233, 206,  85,  40, 223,
             140, 161, 137,  13, 191, 230,  66, 104,  65, 153,  45,  15, 176,  84, 187,  22 >>)

\* the inverse substitution box
sbox1 ==
    Slice(<<  82,   9, 106, 213,  48,  54, 165,  56, 191,  64, 163, 158, 129, 243, 215, 251,
             124, 227,  57, 130, 155,  47, 255, 135,  52, 142,  67,  68, 196, 222, 233, 203,
              84, 123, 148,  50, 166, 194,  35,  61, 238,  76, 149,  11,  66, 250, 195,  78,
               8,  46, 161, 102,  40, 217,  36, 178, 118,  91, 162,  73, 109, 139, 209,  37,
             114, 248, 246, 100, 134, 104, 152,  22, 212, 164,  92, 204,  93, 101, 182, 146,
             108, 112,  72,  80, 253, 237, 185, 218,  94,  21,  70,  87, 167, 141, 157, 132,
             144, 216, 171,   0, 140, 188, 211,  10, 247, 228,  88,   5, 184, 179,  69,   6,
             208,  44,  30, 143, 202,  63,  15,   2, 193, 175, 189,   3,   1,  19, 138, 107,
              58, 145,  17,  65,  79, 103, 220, 234, 151, 242, 207, 206, 240, 180, 230, 115,
             150, 172, 116,  34, 231, 173,  53, 133, 226, 249,  55, 232,  28, 117, 223, 110,
              71, 241,  26, 113,  29,  41, 197, 137, 111, 183,  98,  14, 170,  24, 190,  27,
             252,  86,  62,  75, 198, 210, 121,  32, 154, 219, 192, 254, 120, 205,  90, 244,
              31, 221, 168,  51, 136,   7, 199,  49, 177,  18,  16,  89,  39, 128, 236,  95,
              96,  81, 127, 169,  25, 181,  74,  13,  45, 229, 122, 159, 147, 201, 156, 239,
             160, 224,  59,  77, 174,  42, 245, 176, 200, 235, 187,  60, 131,  83, 153,  97,
              23,  43,   4, 126, 186, 119, 214,  38, 225, 105,  20,  99,  85,  33,  12, 125 >>)

\* ------------------------------------------------------------- package aes

BlockSize == 16

\* rotWordLeft rotates the word n bytes to the left
rotWordLeft(input, n) == OrWord(ShrWord(input, 4 - n), ShlWord(input, n))

\* rotWordRight rotates the word n bytes to the right
rotWordRight(input, n) == OrWord(ShlWord(input, 4 - n), ShrWord(input, n))

subWord(input) == Word(sbox0[input[0]], sbox0[input[1]], sbox0[input[2]], sbox0[input[3]])

invSubWord(input) == Word(sbox1[input[0]], sbox1[input[1]], sbox1[input[2]], sbox1[input[3]])

rcon(i) == Word(powx[i], 0, 0, 0)

\* c_k gathers byte k of input[0..3]: byte i of c_k is byte k of input[i]
transpose(input) == Table([k \in 0..3 |-> Table([i \in 0..3 |-> input[i][k]])])

\* invShiftRows rotating the wrong way
invShiftRowsBad(state) == Table([i \in DOMAIN state |-> IF i >= 1 THEN rotWordLeft(state[i], i) ELSE state[i]])

invShiftRows(state) == Table([i \in DOMAIN state |-> IF i >= 1 THEN rotWordRight(state[i], i) ELSE state[i]])

shiftRows(state) == Table([i \in DOMAIN state |-> IF i >= 1 THEN rotWordLeft(state[i], i) ELSE state[i]])

invSubBytes(state) == Table([i \in DOMAIN state |-> invSubWord(state[i])])

subBytes(state) == Table([i \in DOMAIN state |-> subWord(state[i])])

\* addRoundKey assigning the XOR to the key word instead of the state word
addRoundKeyBad(state, key) ==
    [state |-> state,
     key   |-> Table([i \in DOMAIN state |-> XorWord(state[i], key[i])])]

\* Both slices after the call: the state is written, the key only read.
addRoundKey(state, key) ==
    [state |-> Table([i \in DOMAIN state |-> XorWord(state[i], key[i])]),
     key   |-> key]

calcInvMixCols(a0, a1, a2, a3) ==
    << Xor(Xor(Xor(gMulBy14[a0], gMulBy11[a1]), gMulBy13[a2]), gMulBy9[a3]),
       Xor(Xor(Xor(gMulBy9[a0], gMulBy14[a1]), gMulBy11[a2]), gMulBy13[a3]),
       Xor(Xor(Xor(gMulBy13[a0], gMulBy9[a1]), gMulBy14[a2]), gMulBy11[a3]),
       Xor(Xor(Xor(gMulBy11[a0], gMulBy13[a1]), gMulBy9[a2]), gMulBy14[a3]) >>

\* calcMixCols with the coefficients of its last row exchanged
calcMixColsBad(a0, a1, a2, a3) ==
    << Xor(Xor(Xor(gMulBy2[a0], gMulBy3[a1]), a2), a3),
       Xor(Xor(Xor(a0, gMulBy2[a1]), gMulBy3[a2]), a3),
       Xor(Xor(Xor(a0, a1), gMulBy2[a2]), gMulBy3[a3]),
       Xor(Xor(Xor(gMulBy2[a0], a1), a2), gMulBy3[a3]) >>

calcMixCols(a0, a1, a2, a3) ==
    << Xor(Xor(Xor(gMulBy2[a0], gMulBy3[a1]), a2), a3),
       Xor(Xor(Xor(a0, gMulBy2[a1]), gMulBy3[a2]), a3),
       Xor(Xor(Xor(a0, a1), gMulBy2[a2]), gMulBy3[a3]),
       Xor(Xor(Xor(gMulBy3[a0], a1), a2), gMulBy2[a3]) >>

\* the calc closure manipulateColumns is given, by name
Calc(calc, a0, a1, a2, a3) ==
    IF calc = "calcMixCols" THEN calcMixCols(a0, a1, a2, a3)
    ELSE calcInvMixCols(a0, a1, a2, a3)

\* one pass of manipulateColumns' loop body, for column i
ManipulateColumn(state, i, calc) ==
    LET r == Calc(calc, state[0][i], state[1][i], state[2][i], state[3][i])
    IN  Table([w \in DOMAIN state |->
            IF w <= 3 THEN [state[w] EXCEPT ![i] = r[w + 1]] ELSE state[w]])

manipulateColumns(state, calc) ==
    ManipulateColumn(ManipulateColumn(ManipulateColumn(ManipulateColumn(
        state, 0, calc), 1, calc), 2, calc), 3, calc)

invMixColumns(state) == manipulateColumns(state, "calcInvMixCols")

mixColumns(state) == manipulateColumns(state, "calcMixCols")

\* package matasano's addRoundKey without the gathering
addRoundKeyMBad(state, key) ==
    [state |-> Table([i \in DOMAIN state |-> IF i <= 3 THEN XorWord(state[i], key[i]) ELSE state[i]]),
     key   |-> key]

\* package matasano's addRoundKey: state word i is XORed with the word
\* gathered from byte i of the four round-key words
addRoundKeyM(state, key) ==
    [state |-> Table([i \in DOMAIN state |->
                  IF i <= 3
                  THEN XorWord(state[i], Word(key[0][i], key[1][i], key[2][i], key[3][i]))
                  ELSE state[i]]),
     key   |-> key]

\* the addRoundKey of package pkg
AddRoundKeyOf(pkg, state, key) ==
    IF pkg = "aes" THEN addRoundKey(state, key) ELSE addRoundKeyM(state, key)

\* ---- key schedule

nwords == 4
rounds == 10

\* the second loop with rcon(i/nwords) in place of rcon(i/nwords - 1)
RECURSIVE ExpandFromBad(_, _)
ExpandFromBad(expkeys, i) ==
    IF i >= 4 * (rounds + 1) THEN expkeys
    ELSE LET t  == XorWord(XorWord(subWord(rotWordLeft(expkeys[i - 1], 1)),
                                   rcon(i \div nwords)),
                           expkeys[i - nwords])
             e0 == [expkeys EXCEPT ![i] = t]
             e1 == [e0 EXCEPT ![i + 1] = XorWord(e0[i], e0[i + 1 - nwords])]
             e2 == [e1 EXCEPT ![i + 2] = XorWord(e1[i + 1], e1[i + 2 - nwords])]
             e3 == [e2 EXCEPT ![i + 3] = XorWord(e2[i + 2], e2[i + 3 - nwords])]
         IN  ExpandFromBad(e3, i + nwords)

\* the second loop of keyExpansion, from word i on
RECURSIVE ExpandFrom(_, _)
ExpandFrom(expkeys, i) ==
    IF i >= 4 * (rounds + 1) THEN expkeys
    ELSE LET t  == XorWord(XorWord(subWord(rotWordLeft(expkeys[i - 1], 1)),
                                   rcon((i \div nwords) - 1)),
                           expkeys[i - nwords])
             e0 == [expkeys EXCEPT ![i] = t]
             e1 == [e0 EXCEPT ![i + 1] = XorWord(e0[i], e0[i + 1 - nwords])]
             e2 == [e1 EXCEPT ![i + 2] = XorWord(e1[i + 1], e1[i + 2 - nwords])]
             e3 == [e2 EXCEPT ![i + 3] = XorWord(e2[i + 2], e2[i + 3 - nwords])]
         IN  ExpandFrom(e3, i + nwords)

\* keyExpansion up to, not including, its transposition loop.  The result
\* is [panicked, expkeys]: key[i*4+k] with an index outside the key is a
\* run-time panic, and then nothing is returned.
expandWords(key) ==
    IF \E i \in 0..(nwords - 1), k \in 0..3 : (i * 4) + k \notin DOMAIN key
    THEN [panicked |-> TRUE, expkeys |-> << >>]
    ELSE [panicked |-> FALSE,
          expkeys  |-> ExpandFrom(Table([i \in 0..((4 * (rounds + 1)) - 1) |->
                          IF i < nwords
                          THEN Word(key[i * 4], key[(i * 4) + 1], key[(i * 4) + 2], key[(i * 4) + 3])
                          ELSE Word(0, 0, 0, 0)]),
                        nwords)]

\* for j := 0; j < len(expkeys); j += 4 { transpose(expkeys[j : j+4]) }
transposeGroups(expkeys) ==
    Table([i \in DOMAIN expkeys |->
        transpose(SliceOf(expkeys, i - (i % 4), (i - (i % 4)) + 4))[i % 4]])

keyExpansion(key) ==
    LET w == expandWords(key)
    IN  IF w.panicked THEN w ELSE [w EXCEPT !.expkeys = transposeGroups(w.expkeys)]

\* ---- encrypt and decrypt, one statement group at a time

\* A call in progress: pc is the next statement, state the four state
\* words, keyi and i the locals of the same name (i = -1 before the loop).
\* log is a history of the transforms applied so far, <<name, n>>, n the
\* round key index keyi/4 of an addRoundKey and the round number otherwise.
NewCall(op, state) ==
    [op |-> op, pc |-> "start", state |-> state, keyi |-> 0, i |-> -1, log |-> << >>]

Halted(c) == c.pc \in {"done", "panic"}

\* addRoundKey(state, expkey[keyi:keyi+4]): slicing outside the expanded
\* key panics; the callee gets the key slice itself, not a copy.
ApplyRoundKey(c, expkey, keyi, pkg, next) ==
    IF keyi < 0 \/ keyi + 4 > len(expkey)
    THEN [call |-> [c EXCEPT !.pc = "panic", !.keyi = keyi], expkey |-> expkey]
    ELSE LET slice == SliceOf(expkey, keyi, keyi + 4)
             r == AddRoundKeyOf(pkg, c.state, slice)
         IN  [call   |-> [next EXCEPT !.state = r.state,
                                      !.log = Append(c.log, <<"addRoundKey", keyi \div 4>>)],
              expkey |-> IF r.key = slice THEN expkey
                         ELSE Table([j \in DOMAIN expkey |->
                                  IF keyi <= j /\ j < keyi + 4 THEN r.key[j - keyi] ELSE expkey[j]])]

\* a transform that touches the state only
Apply(c, expkey, newstate, name, n, nextpc) ==
    [call   |-> [c EXCEPT !.state = newstate, !.log = Append(c.log, <<name, n>>), !.pc = nextpc],
     expkey |-> expkey]

\* rounds := len(expkey)/4 - 2, off by one
roundsOfBad(expkey) == (len(expkey) \div 4) - 1

\* rounds := len(expkey)/4 - 2
roundsOf(expkey) == (len(expkey) \div 4) - 2

encryptStepWith(c, expkey, pkg) ==
    LET nrounds == roundsOf(expkey)
    IN  CASE c.pc = "start" ->
               ApplyRoundKey(c, expkey, 0, pkg,
                   [c EXCEPT !.keyi = 4, !.i = 0,
                             !.pc = IF 0 < nrounds THEN "subBytes" ELSE "finalSubBytes"])
          [] c.pc = "subBytes" ->
               Apply(c, expkey, subBytes(c.state), "subBytes", c.i + 1, "shiftRows")
          [] c.pc = "shiftRows" ->
               Apply(c, expkey, shiftRows(c.state), "shiftRows", c.i + 1, "mixColumns")
          [] c.pc = "mixColumns" ->
               Apply(c, expkey, mixColumns(c.state), "mixColumns", c.i + 1, "addRoundKey")
          [] c.pc = "addRoundKey" ->
               ApplyRoundKey(c, expkey, c.keyi, pkg,
                   [c EXCEPT !.keyi = c.keyi + 4, !.i = c.i + 1,
                             !.pc = IF c.i + 1 < nrounds THEN "subBytes" ELSE "finalSubBytes"])
          [] c.pc = "finalSubBytes" ->
               Apply(c, expkey, subBytes(c.state), "subBytes", c.i + 1, "finalShiftRows")
          [] c.pc = "finalShiftRows" ->
               Apply(c, expkey, shiftRows(c.state), "shiftRows", c.i + 1, "finalAddRoundKey")
          [] c.pc = "finalAddRoundKey" ->
               ApplyRoundKey(c, expkey, c.keyi, pkg, [c EXCEPT !.pc = "done"])
          [] OTHER -> [call |-> c, expkey |-> expkey]

\* decrypt with InvMixColumns moved before AddRoundKey in the main rounds
decryptStepWithBad(c, expkey, pkg) ==
    LET nrounds == roundsOf(expkey)
    IN  CASE c.pc = "start" ->
               ApplyRoundKey(c, expkey, len(expkey) - 4, pkg,
                   [c EXCEPT !.keyi = len(expkey) - 8, !.i = 0,
                             !.pc = IF 0 < nrounds THEN "invShiftRows" ELSE "finalInvShiftRows"])
          [] c.pc = "invShiftRows" ->
               Apply(c, expkey, invShiftRows(c.state), "invShiftRows", nrounds - c.i, "invSubBytes")
          [] c.pc = "invSubBytes" ->
               Apply(c, expkey, invSubBytes(c.state), "invSubBytes", nrounds - c.i, "invMixColumns")
          [] c.pc = "invMixColumns" ->
               Apply(c, expkey, invMixColumns(c.state), "invMixColumns", nrounds - c.i,
                     "addRoundKey")
          [] c.pc = "addRoundKey" ->
               ApplyRoundKey(c, expkey, c.keyi, pkg,
                   [c EXCEPT !.keyi = c.keyi - 4, !.i = c.i + 1,
                             !.pc = IF c.i + 1 < nrounds THEN "invShiftRows"
                                    ELSE "finalInvShiftRows"])
          [] c.pc = "finalInvShiftRows" ->
               Apply(c, expkey, invShiftRows(c.state), "invShiftRows", 0, "finalInvSubBytes")
          [] c.pc = "finalInvSubBytes" ->
               Apply(c, expkey, invSubBytes(c.state), "invSubBytes", 0, "finalAddRoundKey")
          [] c.pc = "finalAddRoundKey" ->
               ApplyRoundKey(c, expkey, c.keyi, pkg, [c EXCEPT !.pc = "done"])
          [] OTHER -> [call |-> c, expkey |-> expkey]

decryptStepWith(c, expkey, pkg) ==
    LET nrounds == roundsOf(expkey)
    IN  CASE c.pc = "start" ->
               ApplyRoundKey(c, expkey, len(expkey) - 4, pkg,
                   [c EXCEPT !.keyi = len(expkey) - 8, !.i = 0,
                             !.pc = IF 0 < nrounds THEN "invShiftRows" ELSE "finalInvShiftRows"])
          [] c.pc = "invShiftRows" ->
               Apply(c, expkey, invShiftRows(c.state), "invShiftRows", nrounds - c.i, "invSubBytes")
          [] c.pc = "invSubBytes" ->
               Apply(c, expkey, invSubBytes(c.state), "invSubBytes", nrounds - c.i, "addRoundKey")
          [] c.pc = "addRoundKey" ->
               ApplyRoundKey(c, expkey, c.keyi, pkg,
                   [c EXCEPT !.keyi = c.keyi - 4, !.pc = "invMixColumns"])
          [] c.pc = "invMixColumns" ->
               Apply([c EXCEPT !.i = c.i + 1], expkey, invMixColumns(c.state),
                     "invMixColumns", nrounds - c.i,
                     IF c.i + 1 < nrounds THEN "invShiftRows" ELSE "finalInvShiftRows")
          [] c.pc = "finalInvShiftRows" ->
               Apply(c, expkey, invShiftRows(c.state), "invShiftRows", 0, "finalInvSubBytes")
          [] c.pc = "finalInvSubBytes" ->
               Apply(c, expkey, invSubBytes(c.state), "invSubBytes", 0, "finalAddRoundKey")
          [] c.pc = "finalAddRoundKey" ->
               ApplyRoundKey(c, expkey, c.keyi, pkg, [c EXCEPT !.pc = "done"])
          [] OTHER -> [call |-> c, expkey |-> expkey]

\* one step of a call of package aes
step(c, expkey) ==
    IF c.op = "encrypt" THEN encryptStepWith(c, expkey, "aes")
    ELSE decryptStepWith(c, expkey, "aes")

\* a call run from c to its end with nothing else running
RECURSIVE Run(_, _)
Run(c, expkey) ==
    IF Halted(c) THEN [call |-> c, expkey |-> expkey]
    ELSE LET r == step(c, expkey) IN Run(r.call, r.expkey)

encrypt(state, expkey) == Run(NewCall("encrypt", state), expkey).call.state

decrypt(state, expkey) == Run(NewCall("decrypt", state), expkey).call.state

\* ---- package matasano's copy: the same text, except that keyExpansion
\* has no transposition loop and addRoundKey gathers the key bytes

keyExpansionM(key) == expandWords(key)

RECURSIVE RunM(_, _)
RunM(c, expkey) ==
    IF Halted(c) THEN c
    ELSE LET r == IF c.op = "encrypt" THEN encryptStepWith(c, expkey, "matasano")
                  ELSE decryptStepWith(c, expkey, "matasano")
         IN  RunM(r.call, r.expkey)

encryptM(state, expkey) == RunM(NewCall("encrypt", state), expkey).state

decryptM(state, expkey) == RunM(NewCall("decrypt", state), expkey).state

\* ---- the byte interface (cipher.Block)

\* State word r is row r of the column-major block: byte c of word r is
\* block byte r + 4c.
pack(src) == Table([r \in 0..3 |-> Word(src[r], src[r + 4], src[r + 8], src[r + 12])])

unpack(dst, state) == Table([j \in DOMAIN dst |-> IF j < BlockSize THEN state[j % 4][j \div 4] ELSE dst[j]])

\* A byte slice with its capacity: buf holds the cap bytes of the backing
\* array from the slice's start, len the slice's length.  s[0:n] is legal
\* up to cap(s), not only up to len(s).
Buf(q) == [len |-> Len(q), buf |-> Slice(q)]

cap(s) == len(s.buf)

\* ------------------------------------------------------------- the oracle

\* the number of pairs of byte-identical 16-byte blocks of b; a trailing
\* partial block belongs to no pair
similarBlocks(b) ==
    LET n == len(b) \div BlockSize
        block(k) == SliceOf(b, k * BlockSize, (k + 1) * BlockSize)
    IN  Cardinality({pr \in (0..(n - 1)) \X (0..(n - 1)) :
                        pr[1] < pr[2] /\ block(pr[1]) = block(pr[2])})

\* isAESECB comparing with >= 0
isAESECBBad(b) == IF similarBlocks(b) >= 0 THEN TRUE ELSE FALSE

isAESECB(b) == IF similarBlocks(b) > 0 THEN TRUE ELSE FALSE

\* the loop of OracleAES over i = from .. len(ciphers)-1
RECURSIVE OracleLoop(_, _, _)
OracleLoop(ciphers, guesses, i) ==
    IF i >= len(ciphers) THEN guesses
    ELSE OracleLoop(ciphers,
                    [guesses EXCEPT ![i] = IF isAESECB(ciphers[i]) THEN 1 ELSE 0],
                    i + 1)

OracleAES(ciphers) == OracleLoop(ciphers, Table([i \in 0..(len(ciphers) - 1) |-> 0]), 0)

\* ------------------------------------------------------------- inputs

\* FIPS-197 appendix C.1 and appendix B
RefKeyC    == <<0, 1, 2, 3, 4, 5, 6, 7, 8, 9, 10, 11, 12, 13, 14, 15>>
RefPlainC  == <<0, 17, 34, 51, 68, 85, 102, 119, 136, 153, 170, 187, 204, 221, 238, 255>>
RefCipherC == <<105, 196, 224, 216, 106, 123, 4, 48, 216, 205, 183, 128, 112, 180, 197, 90>>
RefKeyB    == <<43, 126, 21, 22, 40, 174, 210, 166, 171, 247, 21, 136, 9, 207, 79, 60>>
RefPlainB  == <<50, 67, 246, 168, 136, 90, 48, 141, 49, 49, 152, 162, 224, 55, 7, 52>>
RefCipherB == <<57, 37, 132, 29, 2, 220, 9, 251, 220, 17, 133, 151, 25, 106, 11, 50>>

MaxGenKeys == 1
MaxGenBlocks == 1

GenBytes(n, a, b) == [j \in 1..16 |-> ((n * a) + (j * b) + (j * j * n)) % 256]

GenKey(n) == GenBytes(n, 73, 29)
GenBlock(n) == GenBytes(n, 151, 83)

Keys ==
    {Slice(RefKeyB), Slice(RefKeyC),
     Slice(SubSeq(RefKeyC, 1, 15)),       \* one byte short
     Slice(RefKeyC \o <<16>>)}            \* one byte long
    \cup {Slice(GenKey(n)) : n \in 1..MaxGenKeys}

Blocks ==
    {Buf(RefPlainB), Buf(RefPlainC),
     Buf(SubSeq(RefPlainC, 1, 15)),                      \* len 15, cap 15
     Buf(RefPlainC \o <<1>>),                            \* len 17, cap 17
     [len |-> 10, buf |-> Slice(RefPlainC)]}             \* buf[:10] of 16 bytes
    \cup {Buf(GenBlock(n)) : n \in 1..MaxGenBlocks}

Zero16 == Buf([j \in 1..16 |-> 0])

\* the destination buffers a caller passes: 16 zero bytes, or 15
Dsts == {Zero16, Buf([j \in 1..15 |-> 0])}

AllZero(s) == \A j \in DOMAIN s.buf : s.buf[j] = 0

Other(op) == IF op = "encrypt" THEN "decrypt" ELSE "encrypt"

NoCall == [op |-> "none", pc |-> "idle", state |-> << >>, keyi |-> 0, i |-> -1, log |-> << >>]

\* ------------------------------------------------------------- state

VARIABLES
    key,      \* the key bytes given to NewCipher
    expkey,   \* cipherAES.expkey, << >> before construction
    expkey0,  \* history: expkey as NewCipher returned it
    src,      \* the caller's input buffer
    dst,      \* the caller's buffer for the first call's output
    out,      \* the caller's buffer for the second call's output
    op1,      \* the first call, "encrypt" or "decrypt"; the second is the other
    phase,    \* where the caller is
    err,      \* the run-time panic that ended the run, or "none"
    call,     \* the Encrypt or Decrypt call in progress
    procs,    \* concurrent calls on one shared cipher instance
    ciphers,  \* OracleAES's argument
    guesses   \* OracleAES's result, << -1 >> before the call

vars == <<key, expkey, expkey0, src, dst, out, op1, phase, err, call, procs, ciphers, guesses>>

cipherVars == <<key, expkey, expkey0, src, dst, out, op1, phase, err, call>>
oracleVars == <<ciphers, guesses>>

NoOracle == ciphers = << >> /\ guesses = << -1 >>
NoProcs == procs = << >>

\* ------------------------------------------------------------- one caller

Init ==
    /\ key \in Keys
    /\ src \in Blocks
    /\ op1 \in {"encrypt", "decrypt"}
    /\ expkey = << >>
    /\ expkey0 = << >>
    /\ dst \in Dsts
    /\ out = Zero16
    /\ phase = "new"
    /\ err = "none"
    /\ call = NoCall
    /\ NoProcs
    /\ NoOracle

\* NewCipher(key)
NewCipher ==
    /\ phase = "new"
    /\ LET r == keyExpansion(key)
       IN  IF r.panicked
           THEN /\ phase' = "panic"
                /\ err' = "NewCipher: index out of range"
                /\ UNCHANGED <<expkey, expkey0>>
           ELSE /\ expkey' = r.expkeys
                /\ expkey0' = r.expkeys
                /\ phase' = "ready"
                /\ err' = err
    /\ UNCHANGED <<key, src, dst, out, op1, call, procs, ciphers, guesses>>

\* the buffer the call in this phase reads
Input == IF phase \in {"ready", "first"} THEN src ELSE dst

\* Begin with the slice expression bounded by len(src) instead of cap(src)
BeginBad(op) ==
    /\ phase \in {"ready", "between"}
    /\ op = IF phase = "ready" THEN op1 ELSE Other(op1)
    /\ IF BlockSize > Input.len
       THEN /\ phase' = "panic"
            /\ err' = "src: slice bounds out of range"
            /\ call' = call
       ELSE /\ call' = NewCall(op, pack(SliceOf(Input.buf, 0, BlockSize)))
            /\ phase' = IF phase = "ready" THEN "first" ELSE "second"
            /\ err' = err
    /\ UNCHANGED <<key, expkey, expkey0, src, dst, out, op1, procs, ciphers, guesses>>

\* Encrypt or Decrypt up to the call of encrypt or decrypt:
\* state := make([]uint32, 4); pack(state, src[0:BlockSize])
Begin(op) ==
    /\ phase \in {"ready", "between"}
    /\ op = IF phase = "ready" THEN op1 ELSE Other(op1)
    /\ IF BlockSize > cap(Input)
       THEN /\ phase' = "panic"
            /\ err' = "src: slice bounds out of range"
            /\ call' = call
       ELSE /\ call' = NewCall(op, pack(SliceOf(Input.buf, 0, BlockSize)))
            /\ phase' = IF phase = "ready" THEN "first" ELSE "second"
            /\ err' = err
    /\ UNCHANGED <<key, expkey, expkey0, src, dst, out, op1, procs, ciphers, guesses>>

\* one statement group of encrypt or decrypt
StepCall(op) ==
    /\ phase \in {"first", "second"}
    /\ call.op = op
    /\ ~Halted(call)
    /\ LET r == step(call, expkey)
       IN  /\ call' = r.call
           /\ expkey' = r.expkey
    /\ UNCHANGED <<key, expkey0, src, dst, out, op1, phase, err, procs, ciphers, guesses>>

\* the buffer the call in this phase writes
Output == IF phase \in {"ready", "first"} THEN dst ELSE out

\* unpack(dst[0:BlockSize], state), and the return
End(op) ==
    /\ phase \in {"first", "second"}
    /\ call.op = op
    /\ Halted(call)
    /\ IF call.pc = "panic"
       THEN /\ phase' = "panic"
            /\ err' = "expkey: slice bounds out of range"
            /\ UNCHANGED <<dst, out>>
       ELSE IF BlockSize > cap(Output)
       THEN /\ phase' = "panic"
            /\ err' = "dst: slice bounds out of range"
            /\ UNCHANGED <<dst, out>>
       ELSE /\ err' = err
            /\ IF phase = "first"
               THEN /\ dst' = [dst EXCEPT !.buf = unpack(dst.buf, call.state)]
                    /\ out' = out
                    /\ phase' = "between"
               ELSE /\ out' = [out EXCEPT !.buf = unpack(out.buf, call.state)]
                    /\ dst' = dst
                    /\ phase' = "finished"
    /\ UNCHANGED <<key, expkey, expkey0, src, op1, call, procs, ciphers, guesses>>

EncryptBegin == Begin("encrypt")
EncryptStep == StepCall("encrypt")
EncryptEnd == End("encrypt")
DecryptBegin == Begin("decrypt")
DecryptStep == StepCall("decrypt")
DecryptEnd == End("decrypt")

Next ==
    \/ NewCipher
    \/ EncryptBegin
    \/ EncryptStep
    \/ EncryptEnd
    \/ DecryptBegin
    \/ DecryptStep
    \/ DecryptEnd

Spec == Init /\ [][Next]_vars

\* ------------------------------------------------------------- concurrent callers

NProcs == 2

Procs == 1..NProcs

\* Goroutine p calls Encrypt or Decrypt on the one shared instance with
\* buffers of its own.  alone is history: the state words the same call
\* leaves when nothing else runs.
ProcOf(op, block, ek) ==
    [call  |-> NewCall(op, pack(block)),
     dst   |-> Zero16.buf,
     alone |-> Run(NewCall(op, pack(block)), ek).call.state]

ConcInit ==
    /\ key = Slice(RefKeyC)
    /\ expkey = keyExpansion(key).expkeys
    /\ expkey0 = expkey
    /\ \E ops \in [Procs -> {"encrypt", "decrypt"}] :
           \* up to the goroutines' numbering: the encrypting ones first
           /\ \A p \in Procs, q \in Procs : (p < q /\ ops[q] = "encrypt") => ops[p] = "encrypt"
           /\ procs = [p \in Procs |-> ProcOf(ops[p], Slice(GenBlock(p)), expkey)]
    /\ src = Zero16
    /\ dst = Zero16
    /\ out = Zero16
    /\ op1 = "encrypt"
    /\ phase = "ready"
    /\ err = "none"
    /\ call = NoCall
    /\ NoOracle

\* goroutine p runs one statement group of its encrypt or decrypt
ConcStep(p) ==
    /\ ~Halted(procs[p].call)
    /\ LET r == step(procs[p].call, expkey)
       IN  /\ procs' = [procs EXCEPT ![p].call = r.call]
           /\ expkey' = r.expkey
    /\ UNCHANGED <<key, expkey0, src, dst, out, op1, phase, err, call, ciphers, guesses>>

\* goroutine p unpacks its state into its dst and returns
ConcReturn(p) ==
    /\ procs[p].call.pc = "done"
    /\ procs' = [procs EXCEPT ![p].call.pc = "returned",
                              ![p].dst = unpack(procs[p].dst, procs[p].call.state)]
    /\ UNCHANGED <<key, expkey, expkey0, src, dst, out, op1, phase, err, call, ciphers, guesses>>

ConcNext ==
    \/ \E p \in Procs : ConcStep(p)
    \/ \E p \in Procs : ConcReturn(p)

SpecConc == ConcInit /\ [][ConcNext]_vars

\* ------------------------------------------------------------- the oracle's caller

MaxBlocks == 3
MaxCiphers == 2

\* ciphertexts of 0..MaxBlocks blocks drawn from two block values, and one
\* with a trailing partial block
RECURSIVE BlockStrings(_)
BlockStrings(n) ==
    IF n = 0 THEN {<< >>}
    ELSE LET shorter == BlockStrings(n - 1)
         IN  shorter \cup {q \o b : q \in {t \in shorter : Len(t) = (n - 1) * BlockSize},
                                    b \in {RefCipherB, RefCipherC}}

Ciphertexts ==
    {Slice(q) : q \in BlockStrings(MaxBlocks)}
    \cup {Slice(RefCipherB \o RefCipherB \o <<7, 7, 7>>), Slice(RefCipherB \o SubSeq(RefCipherB, 1, 15))}

RECURSIVE CipherLists(_)
CipherLists(n) ==
    IF n = 0 THEN {<< >>}
    ELSE LET shorter == CipherLists(n - 1)
         IN  shorter \cup {Append(q, c) : q \in {t \in shorter : Len(t) = n - 1},
                                          c \in Ciphertexts}

OracleInit ==
    /\ \E q \in CipherLists(MaxCiphers) : ciphers = Slice(q)
    /\ guesses = << -1 >>
    /\ key = << >>
    /\ expkey = << >>
    /\ expkey0 = << >>
    /\ src = Zero16
    /\ dst = Zero16
    /\ out = Zero16
    /\ op1 = "encrypt"
    /\ phase = "oracle"
    /\ err = "none"
    /\ call = NoCall
    /\ NoProcs

CallOracleAES ==
    /\ phase = "oracle"
    /\ guesses' = OracleAES(ciphers)
    /\ phase' = "guessed"
    /\ UNCHANGED <<key, expkey, expkey0, src, dst, out, op1, err, call, procs, ciphers>>

OracleNext == CallOracleAES

SpecOracle == OracleInit /\ [][OracleNext]_vars

\* ------------------------------------------------------------- properties

KeyOK == len(key) = BlockSize
NewCipherPanic == "NewCipher: index out of range"

\* the buffer the last completed call read
LastInput == IF phase = "between" THEN src ELSE dst

\* C1: round trip.  For a 16-byte key and a 16-byte block, once Encrypt and
\* then Decrypt under the same expanded key have returned, the four state
\* words decrypt leaves are the words packed from the original block, and
\* the bytes unpacked from them are the original block.
C1_RoundTrip ==
    (phase = "finished" /\ op1 = "encrypt" /\ KeyOK /\ src.len = BlockSize)
        => /\ call.state = pack(src.buf)
           /\ out.buf = src.buf

C1_Witness ==
    /\ phase = "finished" /\ op1 = "encrypt" /\ KeyOK /\ src.len = BlockSize
    /\ call.state = pack(src.buf)
    /\ dst.buf # src.buf
    /\ key = Slice(GenKey(1))

\* C2: known vectors.  Under the FIPS-197 appendix C.1 key the appendix C.1
\* plaintext encrypts to the appendix C.1 ciphertext byte for byte, and
\* likewise for the appendix B triple.
C2_KnownVector ==
    (phase = "between" /\ op1 = "encrypt")
        => /\ (key = Slice(RefKeyC) /\ src = Buf(RefPlainC)) => dst.buf = Slice(RefCipherC)
           /\ (key = Slice(RefKeyB) /\ src = Buf(RefPlainB)) => dst.buf = Slice(RefCipherB)

C2_Witness ==
    /\ phase = "between" /\ op1 = "encrypt"
    /\ key = Slice(RefKeyC) /\ src = Buf(RefPlainC)
    /\ dst.buf = Slice(RefCipherC)

\* the main rounds r..9 of encryption, as the specification lists them
RECURSIVE EncryptRounds(_)
EncryptRounds(r) ==
    IF r > 9 THEN << >>
    ELSE << <<"subBytes", r>>, <<"shiftRows", r>>, <<"mixColumns", r>>, <<"addRoundKey", r>> >>
         \o EncryptRounds(r + 1)

EncryptSequence ==
    << <<"addRoundKey", 0>> >> \o EncryptRounds(1)
    \o << <<"subBytes", 10>>, <<"shiftRows", 10>>, <<"addRoundKey", 10>> >>

\* the main rounds r..1 of decryption, as the specification lists them
RECURSIVE DecryptRounds(_)
DecryptRounds(r) ==
    IF r < 1 THEN << >>
    ELSE << <<"invShiftRows", r>>, <<"invSubBytes", r>>, <<"addRoundKey", r>>, <<"invMixColumns", r>> >>
         \o DecryptRounds(r - 1)

DecryptSequence ==
    << <<"addRoundKey", 10>> >> \o DecryptRounds(9)
    \o << <<"invShiftRows", 0>>, <<"invSubBytes", 0>>, <<"addRoundKey", 0>> >>

IsPrefix(p, q) == Len(p) <= Len(q) /\ p = SubSeq(q, 1, Len(p))

\* C3: the step sequence of encrypt.  At every point of an encrypt call the
\* transforms applied so far are a prefix of: AddRoundKey(0); for rounds
\* 1..9 SubBytes, ShiftRows, MixColumns, AddRoundKey(i); SubBytes,
\* ShiftRows, AddRoundKey(10).  The call ends with exactly that sequence,
\* and its key index always addresses four words inside the expanded key.
C3_EncryptSteps ==
    call.op = "encrypt"
        => /\ call.pc # "panic"
           /\ call.keyi >= 0 /\ call.keyi + 4 <= len(expkey)
           /\ IsPrefix(call.log, EncryptSequence)
           /\ call.pc = "done" => call.log = EncryptSequence

C3_Witness ==
    /\ call.op = "encrypt" /\ call.pc = "done"
    /\ call.log = EncryptSequence
    /\ Len(call.log) = 40

\* C4: the step sequence of decrypt.  At every point of a decrypt call the
\* transforms applied so far are a prefix of: AddRoundKey(10); for rounds
\* 9..1 InvShiftRows, InvSubBytes, AddRoundKey(i), InvMixColumns;
\* InvShiftRows, InvSubBytes, AddRoundKey(0).  The call ends with exactly
\* that sequence, in which InvMixColumns occurs 9 times.
C4_DecryptSteps ==
    call.op = "decrypt"
        => /\ call.pc # "panic"
           /\ call.keyi >= 0 /\ call.keyi + 4 <= len(expkey)
           /\ IsPrefix(call.log, DecryptSequence)
           /\ call.pc = "done" =>
                  /\ call.log = DecryptSequence
                  /\ Cardinality({k \in 1..Len(call.log) : call.log[k][1] = "invMixColumns"}) = 9

C4_Witness ==
    /\ call.op = "decrypt" /\ call.pc = "done"
    /\ call.log = DecryptSequence
    /\ Len(call.log) = 40

\* w is the AES-128 key schedule of k: w[0..3] are k packed big-endian, and
\* each later word follows the recurrence
IsSchedule(w, k) ==
    /\ len(w) = 44
    /\ \A i \in 0..3 : w[i] = Word(k[4 * i], k[(4 * i) + 1], k[(4 * i) + 2], k[(4 * i) + 3])
    /\ \A i \in 4..43 :
           IF i % 4 = 0
           THEN w[i] = XorWord(XorWord(subWord(rotWordLeft(w[i - 1], 1)), rcon((i \div 4) - 1)),
                               w[i - 4])
           ELSE w[i] = XorWord(w[i - 1], w[i - 4])

\* word i of e with every 4-word group read column-wise
Columns(e) ==
    [i \in DOMAIN e |->
        Word(e[i - (i % 4)][i % 4], e[(i - (i % 4)) + 1][i % 4],
             e[(i - (i % 4)) + 2][i % 4], e[(i - (i % 4)) + 3][i % 4])]

\* C5 as stated: the words keyExpansion of package aes returns for a
\* 16-byte key are themselves the schedule w[0..43]
C5_ReturnsSchedule ==
    (phase = "ready" /\ KeyOK) => IsSchedule(expkey, key)

\* C5 as amended: for a 16-byte key, keyExpansion of package aes returns 44
\* words that are the schedule w[0..43] with every 4-word round key
\* transposed: byte c of returned word 4g+r is byte r of w[4g+c].
C5_ReturnsTransposedSchedule ==
    (phase = "ready" /\ KeyOK) => (len(expkey) = 44 /\ IsSchedule(Columns(expkey), key))

C5_Witness ==
    /\ phase = "ready" /\ KeyOK
    /\ IsSchedule(Columns(expkey), key)
    /\ Columns(expkey) # expkey

\* C6: a key that is not exactly 16 bytes makes construction fail: no
\* cipher is returned and no expanded key exists
C6_KeyLengthChecked ==
    (phase # "new" /\ ~KeyOK) => (phase = "panic" /\ expkey = << >>)

HasRepeatedBlock(b) ==
    \E i, j \in 0..((len(b) \div BlockSize) - 1) :
        /\ i < j
        /\ \A k \in 0..(BlockSize - 1) : b[(i * BlockSize) + k] = b[(j * BlockSize) + k]

\* C8: OracleAES returns one label per ciphertext, 1 exactly for the
\* ciphertexts holding two byte-identical 16-byte blocks and 0 for the
\* others, and nothing else.
C8_OracleLabels ==
    phase = "guessed"
        => /\ DOMAIN guesses = DOMAIN ciphers
           /\ \A i \in DOMAIN ciphers :
                  /\ guesses[i] \in {0, 1}
                  /\ guesses[i] = 1 <=> HasRepeatedBlock(ciphers[i])

C8_Witness ==
    /\ phase = "guessed"
    /\ len(ciphers) = 2
    /\ guesses[0] = 1 /\ guesses[1] = 0
    /\ len(ciphers[0]) = 3 * BlockSize /\ len(ciphers[1]) = 2 * BlockSize

\* C9: with goroutines interleaving Encrypt and Decrypt calls on one shared
\* instance, the expanded key always is what NewCipher returned, no call
\* panics, and a call that has ended left the state words, and returned
\* the bytes, it leaves when run alone.
C9_SharedKeyReadOnly ==
    procs # << >>
        => /\ expkey = expkey0
           /\ \A p \in DOMAIN procs :
                  /\ procs[p].call.pc # "panic"
                  /\ procs[p].call.pc \in {"done", "returned"}
                         => procs[p].call.state = procs[p].alone
                  /\ procs[p].call.pc = "returned"
                         => procs[p].dst = unpack(Zero16.buf, procs[p].alone)

C9_Witness ==
    /\ procs # << >>
    /\ procs[1].call.op = "encrypt" /\ procs[2].call.op = "decrypt"
    /\ \A p \in DOMAIN procs : procs[p].call.pc = "returned"
    /\ expkey = expkey0
    /\ procs[1].call.state = procs[1].alone
    /\ procs[1].dst # Zero16.buf

\* C10: the two copies agree.  The state words an Encrypt or Decrypt call
\* of package aes leaves are the words package matasano's encrypt or
\* decrypt computes from the same packed input under its own, untransposed
\* expanded key.
C10_CopiesAgree ==
    (phase \in {"between", "finished"} /\ KeyOK)
        => LET in == pack(SliceOf(LastInput.buf, 0, BlockSize))
               ek == keyExpansionM(key).expkeys
           IN  call.state = IF call.op = "encrypt" THEN encryptM(in, ek) ELSE decryptM(in, ek)

C10_Witness ==
    /\ phase = "finished" /\ KeyOK /\ call.op = "decrypt"
    /\ call.state = decryptM(pack(dst.buf), keyExpansionM(key).expkeys)
    /\ keyExpansionM(key).expkeys # expkey
====
